---- MODULE Spec2Model ----
(***************************************************************************)
(* Model of behavior_path_planner's path_safety_checker object filtering   *)
(* (objects_filtering.cpp): the three filtering gates, the partition by    *)
(* lanelets, the lane buckets and the ego / other-agent projections.       *)
(*                                                                         *)
(* The functions are pure; a caller holds a batch, makes a call and keeps  *)
(* its return value.  SpecFilter, SpecLanelet, SpecEgo and SpecTransform   *)
(* draw the inputs of the groups of functions.  SpecWall is motion_utils'  *)
(* VirtualWallMarkerCreator (virtual_wall_marker_creator.cpp).             *)
(*                                                                         *)
(* Numbers are exact integers.  Planar velocities are chosen so that their *)
(* norm is an integer (3-4-5 triangles), which makes std::hypot exact.     *)
(* Positions are integer grid coordinates; the route centerline is the     *)
(* straight line y = 0, so an arc length along it is an x coordinate.      *)
(* Polygons are axis-aligned rectangles.  Times are integer milliseconds.  *)
(***************************************************************************)
EXTENDS Integers, Sequences, FiniteSets, TLC

VARIABLES
    batch,          \* the PredictedObjects message the operations work on
    call,           \* the last call made: its name, its arguments, its input
    ret,            \* what the last call returned
    route_queries,  \* number of RouteHandler::getCenterLinePath calls so far
    virtual_walls,  \* VirtualWallMarkerCreator: the walls added since the last create_markers
    marker_count_per_namespace, \* VirtualWallMarkerCreator: namespace -> MarkerCount
    published,      \* the marker array most recently returned by create_markers
    viewer          \* the markers a viewer holds that applied every returned array in order

creator_vars == <<virtual_walls, marker_count_per_namespace, published, viewer>>

vars == <<batch, call, ret, route_queries, virtual_walls, marker_count_per_namespace,
          published, viewer>>

\* a MarkerArray: the markers pushed in the conversion loop, in order, and the
\* DELETE markers pushed after them (in the iteration order of the map)
MarkerArray(markers, deletes) == [markers |-> markers, deletes |-> deletes]

\* a VirtualWallMarkerCreator after construction, nothing returned or shown yet
InitCreator ==
    /\ virtual_walls = <<>>
    /\ marker_count_per_namespace = [ns \in {} |-> 0]
    /\ published = MarkerArray(<<>>, {})
    /\ viewer = {}

----------------------------------------------------------------------------
(* Bounds of the model *)

\* longest object batch drawn as an input
MaxObjects == 2

\* stand-in for std::numeric_limits<double>::max(): above every modelled speed
DoubleMax == 1000000

----------------------------------------------------------------------------
(* Messages *)

\* std_msgs/Header of the input batches
InputHeader == [frame_id |-> "map", stamp |-> 7]

\* a default-constructed std_msgs/Header
DefaultHeader == [frame_id |-> "", stamp |-> 0]

\* PredictedObjects(): default header, no objects
PredictedObjects == [header |-> DefaultHeader, objects |-> <<>>]

\* ObjectClassification labels; "OTHER" is a label value outside the eight
\* the class gate knows
Labels == {"UNKNOWN", "CAR", "TRUCK", "BUS", "TRAILER", "MOTORCYCLE", "BICYCLE",
           "PEDESTRIAN"}

\* a PredictedObject: id, initial twist (vx, vy), initial position (x, y),
\* classification entries, shape (half extents) and predicted paths
PredictedObject(id, vx, vy, x, y, classification, shape, paths) ==
    [object_id |-> id, vx |-> vx, vy |-> vy, x |-> x, y |-> y,
     classification |-> classification, shape |-> shape,
     predicted_paths |-> paths]

Cls(label, probability) == [label |-> label, probability |-> probability]

UnitShape == [hx |-> 1, hy |-> 1]

\* all sequences over S of length at most n
RECURSIVE SeqsUpTo(_, _)
SeqsUpTo(S, n) ==
    IF n = 0 THEN {<<>>}
    ELSE LET shorter == SeqsUpTo(S, n - 1)
         IN shorter \cup {Append(s, e) : s \in {t \in shorter : Len(t) = n - 1}, e \in S}

----------------------------------------------------------------------------
(* Numeric helpers *)

Max(a, b) == IF a >= b THEN a ELSE b

\* std::hypot(x, y) on the velocities of the model, whose norm is an integer
Hypot(x, y) == CHOOSE s \in 0..(x * x + y * y) : s * s = x * x + y * y

----------------------------------------------------------------------------
(* External collaborators *)

\* utils::getHighestProbLabel: the label of the maximum-probability entry,
\* the first-listed one among equals
getHighestProbLabel(classification) ==
    LET best == CHOOSE i \in 1..Len(classification) :
                    /\ \A j \in 1..Len(classification) :
                           classification[j].probability <= classification[i].probability
                    /\ \A j \in 1..(i - 1) :
                           classification[j].probability < classification[i].probability
    IN classification[best].label

\* RouteHandler::getCenterLinePath: the centerline is the straight line y = 0
\* sampled from -backward_distance to forward_distance around the origin
getCenterLinePath(backward_distance, forward_distance) ==
    <<[x |-> 0 - backward_distance, y |-> 0], [x |-> 0, y |-> 0],
      [x |-> forward_distance, y |-> 0]>>

\* motion_utils::calcSignedArcLength(points, src_point, dst_point): the arc
\* length from the projection of src to the projection of dst, negative when
\* dst is behind src; on the straight centerline y = 0 it is the x difference
calcSignedArcLength(path_points, src_point, dst_point) ==
    dst_point.x - src_point.x

----------------------------------------------------------------------------
(* objects_filtering.cpp: the three gates *)

filterObjectsByVelocity_nonstrict(objects, velocity_threshold, max_velocity) ==
    [header |-> objects.header,
     objects |-> SelectSeq(objects.objects,
                    LAMBDA obj : LET v_norm == Hypot(obj.vx, obj.vy)
                                 IN velocity_threshold <= v_norm /\ v_norm <= max_velocity)]

\* filterObjectsByVelocity(objects, velocity_threshold, max_velocity)
filterObjectsByVelocity(objects, velocity_threshold, max_velocity) ==
    [header |-> objects.header,
     objects |-> SelectSeq(objects.objects,
                    LAMBDA obj : LET v_norm == Hypot(obj.vx, obj.vy)
                                 IN velocity_threshold < v_norm /\ v_norm < max_velocity)]

filterObjectsByVelocity_bool_swapped(objects, velocity_threshold, remove_above_threshold) ==
    IF remove_above_threshold
    THEN filterObjectsByVelocity(objects, velocity_threshold, DoubleMax)
    ELSE filterObjectsByVelocity(objects, 0 - velocity_threshold, velocity_threshold)

\* filterObjectsByVelocity(objects, velocity_threshold, remove_above_threshold)
filterObjectsByVelocity_bool(objects, velocity_threshold, remove_above_threshold) ==
    IF remove_above_threshold
    THEN filterObjectsByVelocity(objects, 0 - velocity_threshold, velocity_threshold)
    ELSE filterObjectsByVelocity(objects, velocity_threshold, DoubleMax)

filterObjectsByPosition_swapped(objects, path_points, current_pose, forward_distance, backward_distance) ==
    [header |-> objects.header,
     objects |-> SelectSeq(objects.objects,
                    LAMBDA obj :
                        LET dist_ego_to_obj ==
                                calcSignedArcLength(path_points, current_pose, obj)
                        IN /\ 0 - forward_distance < dist_ego_to_obj
                           /\ dist_ego_to_obj < backward_distance)]

\* filterObjectsByPosition: replaces the objects of the batch in place; the
\* value is the batch after the call
filterObjectsByPosition(objects, path_points, current_pose, forward_distance, backward_distance) ==
    [header |-> objects.header,
     objects |-> SelectSeq(objects.objects,
                    LAMBDA obj :
                        LET dist_ego_to_obj ==
                                calcSignedArcLength(path_points, current_pose, obj)
                        IN /\ 0 - backward_distance < dist_ego_to_obj
                           /\ dist_ego_to_obj < forward_distance)]

\* the condition is_object_type of filterObjectsByClass
is_object_type(t, target_object_types) ==
    \/ t = "CAR" /\ target_object_types.check_car
    \/ t = "TRUCK" /\ target_object_types.check_truck
    \/ t = "BUS" /\ target_object_types.check_bus
    \/ t = "TRAILER" /\ target_object_types.check_trailer
    \/ t = "UNKNOWN" /\ target_object_types.check_unknown
    \/ t = "BICYCLE" /\ target_object_types.check_bicycle
    \/ t = "MOTORCYCLE" /\ target_object_types.check_motorcycle
    \/ t = "PEDESTRIAN" /\ target_object_types.check_pedestrian

filterObjectsByClass_lastmax(objects, target_object_types) ==
    [header |-> DefaultHeader,
     objects |-> SelectSeq(objects.objects,
                    LAMBDA object :
                        LET c == object.classification
                            last == CHOOSE i \in 1..Len(c) :
                                        /\ \A j \in 1..Len(c) :
                                               c[j].probability <= c[i].probability
                                        /\ \A j \in (i + 1)..Len(c) :
                                               c[j].probability < c[i].probability
                        IN is_object_type(c[last].label, target_object_types))]

\* the class gate with a loop that starts at the second object
filterObjectsByClass_skipfirst(objects, target_object_types) ==
    [header |-> DefaultHeader,
     objects |-> SelectSeq(IF objects.objects = <<>> THEN <<>> ELSE Tail(objects.objects),
                    LAMBDA object :
                        is_object_type(getHighestProbLabel(object.classification),
                                       target_object_types))]

\* filterObjectsByClass: replaces the whole batch in place by a batch built
\* from a default-constructed one; the value is the batch after the call
filterObjectsByClass(objects, target_object_types) ==
    [header |-> DefaultHeader,
     objects |-> SelectSeq(objects.objects,
                    LAMBDA object :
                        is_object_type(getHighestProbLabel(object.classification),
                                       target_object_types))]

filterObjects_noclass(objects, current_pose, params) ==
    IF objects.objects = <<>>
    THEN [objects |-> PredictedObjects, stages |-> <<>>, route_queried |-> FALSE]
    ELSE LET by_velocity == filterObjectsByVelocity_bool(
                                objects, params.ignore_object_velocity_threshold, FALSE)
             path_points == getCenterLinePath(params.object_check_backward_distance,
                                              params.object_check_forward_distance)
             by_position == filterObjectsByPosition(
                                by_velocity, path_points, current_pose,
                                params.object_check_forward_distance,
                                params.object_check_backward_distance)
         IN [objects |-> by_position,
             stages |-> <<by_velocity, by_velocity, by_position>>,
             route_queried |-> TRUE]

\* filterObjects: the returned batch, the value of filtered_objects after each
\* of the three stages, and whether the route was queried
filterObjects(objects, current_pose, params) ==
    IF objects.objects = <<>>
    THEN [objects |-> PredictedObjects, stages |-> <<>>, route_queried |-> FALSE]
    ELSE LET by_velocity == filterObjectsByVelocity_bool(
                                objects, params.ignore_object_velocity_threshold, FALSE)
             by_class == filterObjectsByClass(by_velocity, params.object_types_to_check)
             path_points == getCenterLinePath(params.object_check_backward_distance,
                                              params.object_check_forward_distance)
             by_position == filterObjectsByPosition(
                                by_class, path_points, current_pose,
                                params.object_check_forward_distance,
                                params.object_check_backward_distance)
         IN [objects |-> by_position,
             stages |-> <<by_velocity, by_class, by_position>>,
             route_queried |-> TRUE]

----------------------------------------------------------------------------
(* Inputs of the filtering operations *)

FilterCatalogue ==
    { PredictedObject("ped", 0, 0, 2, 1, <<Cls("PEDESTRIAN", 90)>>, UnitShape, <<>>),
      PredictedObject("car", 3, 4, 5, 0, <<Cls("CAR", 50), Cls("TRUCK", 50)>>,
                      UnitShape, <<>>),
      PredictedObject("truck", -3, -4, -5, -1, <<Cls("BUS", 20), Cls("TRUCK", 80)>>,
                      UnitShape, <<>>),
      PredictedObject("other", 6, 8, 0, 2, <<Cls("OTHER", 60), Cls("CAR", 40)>>,
                      UnitShape, <<>>),
      PredictedObject("bike", -5, 0, 3, 0, <<Cls("BICYCLE", 70), Cls("MOTORCYCLE", 30)>>,
                      UnitShape, <<>>),
      PredictedObject("slow", 0, 1, -10, 0, <<Cls("UNKNOWN", 10), Cls("TRAILER", 10)>>,
                      UnitShape, <<>>) }

FilterBatches ==
    {[header |-> InputHeader, objects |-> s] : s \in SeqsUpTo(FilterCatalogue, MaxObjects)}

ObjectTypes(car, truck, bus, trailer, unknown, bicycle, motorcycle, pedestrian) ==
    [check_car |-> car, check_truck |-> truck, check_bus |-> bus,
     check_trailer |-> trailer, check_unknown |-> unknown, check_bicycle |-> bicycle,
     check_motorcycle |-> motorcycle, check_pedestrian |-> pedestrian]

ObjectTypesToCheck ==
    { ObjectTypes(TRUE, TRUE, TRUE, TRUE, TRUE, TRUE, TRUE, TRUE),
      ObjectTypes(FALSE, FALSE, FALSE, FALSE, FALSE, FALSE, FALSE, FALSE),
      ObjectTypes(TRUE, TRUE, TRUE, TRUE, TRUE, TRUE, TRUE, FALSE),
      ObjectTypes(TRUE, FALSE, FALSE, FALSE, FALSE, FALSE, FALSE, TRUE),
      ObjectTypes(FALSE, TRUE, FALSE, TRUE, FALSE, TRUE, FALSE, FALSE),
      ObjectTypes(FALSE, FALSE, TRUE, FALSE, TRUE, FALSE, TRUE, FALSE) }

VelocityThresholds == {-1, 0, 1, 5}
MaxVelocities == {0, 5, 10, DoubleMax}
Distances == {0, 5, 10}
EgoPositions == {[x |-> 0, y |-> 0], [x |-> 3, y |-> 0]}

NoCall == [op |-> "none"]
NoRet == [kind |-> "none"]

----------------------------------------------------------------------------
(* The filtering operations as steps of a caller *)

InitFilter ==
    /\ batch \in FilterBatches
    /\ call = NoCall
    /\ ret = NoRet
    /\ route_queries = 0
    /\ InitCreator

\* a caller passes its batch to filterObjects
FilterObjects ==
    /\ call.op = "none"
    /\ \E thr \in VelocityThresholds, types \in ObjectTypesToCheck,
          fwd \in Distances, bwd \in Distances, ego \in EgoPositions :
        LET params == [ignore_object_velocity_threshold |-> thr,
                       object_check_forward_distance |-> fwd,
                       object_check_backward_distance |-> bwd,
                       object_types_to_check |-> types]
            r == filterObjects(batch, ego, params)
        IN /\ call' = [op |-> "filterObjects", objects |-> batch,
                       current_pose |-> ego, params |-> params]
           /\ ret' = [kind |-> "objects", objects |-> r.objects, stages |-> r.stages]
           /\ route_queries' = route_queries + (IF r.route_queried THEN 1 ELSE 0)
    /\ UNCHANGED batch
    /\ UNCHANGED creator_vars

\* a caller passes its batch to the (threshold, max) velocity filter
FilterObjectsByVelocity ==
    /\ call.op = "none"
    /\ \E v \in VelocityThresholds, max \in MaxVelocities :
        /\ call' = [op |-> "filterObjectsByVelocity", objects |-> batch,
                    velocity_threshold |-> v, max_velocity |-> max]
        /\ ret' = [kind |-> "objects",
                   objects |-> filterObjectsByVelocity(batch, v, max)]
    /\ UNCHANGED <<batch, route_queries>>
    /\ UNCHANGED creator_vars

\* a caller passes its batch to the boolean-flag velocity filter
FilterObjectsByVelocityBool ==
    /\ call.op = "none"
    /\ \E v \in VelocityThresholds, flag \in BOOLEAN :
        /\ call' = [op |-> "filterObjectsByVelocity_bool", objects |-> batch,
                    velocity_threshold |-> v, remove_above_threshold |-> flag]
        /\ ret' = [kind |-> "objects",
                   objects |-> filterObjectsByVelocity_bool(batch, v, flag)]
    /\ UNCHANGED <<batch, route_queries>>
    /\ UNCHANGED creator_vars

\* a caller filters its batch in place by class (possibly again)
FilterObjectsByClass ==
    /\ call.op \in {"none", "filterObjectsByClass", "filterObjectsByPosition"}
    /\ \E types \in ObjectTypesToCheck :
        /\ call' = [op |-> "filterObjectsByClass", objects |-> batch,
                    target_object_types |-> types]
        /\ batch' = filterObjectsByClass(batch, types)
    /\ ret' = NoRet
    /\ UNCHANGED route_queries
    /\ UNCHANGED creator_vars

\* a caller filters its batch in place by position (possibly again)
FilterObjectsByPosition ==
    /\ call.op \in {"none", "filterObjectsByClass", "filterObjectsByPosition"}
    /\ \E fwd \in Distances, bwd \in Distances, ego \in EgoPositions :
        /\ call' = [op |-> "filterObjectsByPosition", objects |-> batch,
                    current_pose |-> ego, forward_distance |-> fwd,
                    backward_distance |-> bwd]
        /\ batch' = filterObjectsByPosition(batch, getCenterLinePath(bwd, fwd), ego,
                                            fwd, bwd)
    /\ ret' = NoRet
    /\ UNCHANGED route_queries
    /\ UNCHANGED creator_vars

NextFilter ==
    \/ FilterObjects
    \/ FilterObjectsByVelocity
    \/ FilterObjectsByVelocityBool
    \/ FilterObjectsByClass
    \/ FilterObjectsByPosition

SpecFilter == InitFilter /\ [][NextFilter]_vars

----------------------------------------------------------------------------
(* Geometry: every polygon of the model is an axis-aligned rectangle given   *)
(* as a ring of its four corners, or the empty ring                          *)

Point(x, y) == [x |-> x, y |-> y]

\* the ring of the rectangle [x1, x2] x [y1, y2], clockwise, not closed
Rect(x1, y1, x2, y2) == <<Point(x1, y1), Point(x1, y2), Point(x2, y2), Point(x2, y1)>>

MinX(ring) == CHOOSE v \in {ring[i].x : i \in 1..Len(ring)} : \A i \in 1..Len(ring) : v <= ring[i].x
MaxX(ring) == CHOOSE v \in {ring[i].x : i \in 1..Len(ring)} : \A i \in 1..Len(ring) : v >= ring[i].x
MinY(ring) == CHOOSE v \in {ring[i].y : i \in 1..Len(ring)} : \A i \in 1..Len(ring) : v <= ring[i].y
MaxY(ring) == CHOOSE v \in {ring[i].y : i \in 1..Len(ring)} : \A i \in 1..Len(ring) : v >= ring[i].y

\* boost::geometry::within(point, polygon): the point lies in the interior of
\* the polygon; a point on the boundary is not within, nothing is within an
\* empty polygon
Within(point, ring) ==
    /\ ring # <<>>
    /\ MinX(ring) < point.x /\ point.x < MaxX(ring)
    /\ MinY(ring) < point.y /\ point.y < MaxY(ring)

\* boost::geometry::disjoint(polygon, polygon): the closed regions share no
\* point; polygons that only touch are not disjoint
Disjoint(ring1, ring2) ==
    \/ MaxX(ring1) < MinX(ring2)
    \/ MaxX(ring2) < MinX(ring1)
    \/ MaxY(ring1) < MinY(ring2)
    \/ MaxY(ring2) < MinY(ring1)

\* tier4_autoware_utils::toPolygon2d(pose, shape): the footprint of the shape
\* placed at the pose
toPolygon2d(pose, shape) ==
    Rect(pose.x - shape.hx, pose.y - shape.hy, pose.x + shape.hx, pose.y + shape.hy)

\* tier4_autoware_utils::toPolygon2d(object): the footprint of the object at
\* its initial pose
toPolygon2d_object(obj) == toPolygon2d(Point(obj.x, obj.y), obj.shape)

\* a lanelet: its id and llt.polygon2d().basicPolygon()
Lanelet(id, polygon) == [id |-> id, polygon2d |-> polygon]

----------------------------------------------------------------------------
(* objects_filtering.cpp: partition by lanelets *)

\* std::pair
Pair(a, b) == [first |-> a, second |-> b]

\* the loop over target_lanelets of separateObjectIndicesByLanelets, from the
\* k-th lanelet on: whether the object is pushed to target_indices
RECURSIVE is_filtered_object(_, _, _)
is_filtered_object(obj_polygon, target_lanelets, k) ==
    IF k > Len(target_lanelets) THEN FALSE
    ELSE LET polygon2d == target_lanelets[k].polygon2d
         IN IF polygon2d = <<>>
            THEN is_filtered_object(obj_polygon, target_lanelets, k + 1)
            ELSE LET lanelet_polygon == Append(polygon2d, polygon2d[1])
                 IN IF ~Disjoint(lanelet_polygon, obj_polygon)
                    THEN TRUE
                    ELSE is_filtered_object(obj_polygon, target_lanelets, k + 1)

\* the loop over the objects, from index i (0-based) on
RECURSIVE separateLoop(_, _, _, _, _)
separateLoop(objects, target_lanelets, i, target_indices, other_indices) ==
    IF ~(i < Len(objects.objects)) THEN Pair(target_indices, other_indices)
    ELSE LET obj == objects.objects[i + 1]
             obj_polygon == toPolygon2d_object(obj)
         IN IF is_filtered_object(obj_polygon, target_lanelets, 1)
            THEN separateLoop(objects, target_lanelets, i + 1,
                              Append(target_indices, i), other_indices)
            ELSE separateLoop(objects, target_lanelets, i + 1,
                              target_indices, Append(other_indices, i))

\* the same loops without the break after the first matching lanelet
RECURSIVE matches_nobreak(_, _, _, _)
matches_nobreak(obj_polygon, target_lanelets, k, i) ==
    IF k > Len(target_lanelets) THEN <<>>
    ELSE LET polygon2d == target_lanelets[k].polygon2d
             rest == matches_nobreak(obj_polygon, target_lanelets, k + 1, i)
         IN IF polygon2d # <<>> /\ ~Disjoint(Append(polygon2d, polygon2d[1]), obj_polygon)
            THEN <<i>> \o rest
            ELSE rest

RECURSIVE separateLoop_nobreak(_, _, _, _, _)
separateLoop_nobreak(objects, target_lanelets, i, target_indices, other_indices) ==
    IF ~(i < Len(objects.objects)) THEN Pair(target_indices, other_indices)
    ELSE LET m == matches_nobreak(toPolygon2d_object(objects.objects[i + 1]),
                                  target_lanelets, 1, i)
         IN IF m # <<>>
            THEN separateLoop_nobreak(objects, target_lanelets, i + 1,
                                      target_indices \o m, other_indices)
            ELSE separateLoop_nobreak(objects, target_lanelets, i + 1,
                                      target_indices, Append(other_indices, i))

separateObjectIndicesByLanelets_nobreak(objects, target_lanelets) ==
    IF target_lanelets = <<>> THEN Pair(<<>>, <<>>)
    ELSE separateLoop_nobreak(objects, target_lanelets, 0, <<>>, <<>>)

separateObjectIndicesByLanelets_noguard(objects, target_lanelets) ==
    separateLoop(objects, target_lanelets, 0, <<>>, <<>>)

\* separateObjectIndicesByLanelets: (target_indices, other_indices), 0-based
separateObjectIndicesByLanelets(objects, target_lanelets) ==
    IF target_lanelets = <<>> THEN Pair(<<>>, <<>>)
    ELSE separateLoop(objects, target_lanelets, 0, <<>>, <<>>)

\* separateObjectsByLanelets: (target_objects, other_objects)
separateObjectsByLanelets(objects, target_lanelets) ==
    LET indices == separateObjectIndicesByLanelets(objects, target_lanelets)
        target_indices == indices.first
        other_indices == indices.second
    IN Pair([header |-> DefaultHeader,
             objects |-> [k \in 1..Len(target_indices) |->
                              objects.objects[target_indices[k] + 1]]],
            [header |-> DefaultHeader,
             objects |-> [k \in 1..Len(other_indices) |->
                              objects.objects[other_indices[k] + 1]]])

\* the loop of isCentroidWithinLanelets from the k-th lanelet on
RECURSIVE centroidLoop(_, _, _)
centroidLoop(object_centroid, target_lanelets, k) ==
    IF k > Len(target_lanelets) THEN FALSE
    ELSE IF Within(object_centroid, target_lanelets[k].polygon2d) THEN TRUE
    ELSE centroidLoop(object_centroid, target_lanelets, k + 1)

\* the same with a test that counts the boundary as inside (covered_by)
isCentroidWithinLanelets_covered_by(object, target_lanelets) ==
    \E k \in 1..Len(target_lanelets) :
        LET ring == target_lanelets[k].polygon2d
        IN /\ ring # <<>>
           /\ MinX(ring) <= object.x /\ object.x <= MaxX(ring)
           /\ MinY(ring) <= object.y /\ object.y <= MaxY(ring)

\* isCentroidWithinLanelets
isCentroidWithinLanelets(object, target_lanelets) ==
    IF target_lanelets = <<>> THEN FALSE
    ELSE centroidLoop(Point(object.x, object.y), target_lanelets, 1)

----------------------------------------------------------------------------
(* objects_filtering.cpp: projection of the other agents *)

\* the 1e-3 s added to the horizon in the sampling loops, in milliseconds
Epsilon == 1

\* a PredictedPath: confidence, time step (ms) and poses
PredictedPath(confidence, time_step, path) ==
    [confidence |-> confidence, time_step |-> time_step, path |-> path]

\* object_recognition_utils::calcInterpolatedPose(path, relative_time): the
\* pose of the path at the time, undefined outside the span of the path
calcInterpolatedPose_path(path, relative_time) ==
    LET n == Len(path.path)
    IN IF n = 0 \/ relative_time < 0 \/ relative_time > (n - 1) * path.time_step
       THEN [defined |-> FALSE]
       ELSE LET k == relative_time \div path.time_step
            IN IF k >= n - 1
               THEN [defined |-> TRUE, pose |-> path.path[n]]
               ELSE LET a == path.path[k + 1]
                        b == path.path[k + 2]
                        offset == relative_time - k * path.time_step
                    IN [defined |-> TRUE,
                        pose |-> Point(a.x + ((b.x - a.x) * offset) \div path.time_step,
                                       a.y + ((b.y - a.y) * offset) \div path.time_step)]

\* the sampling loop of transform for one predicted path, from time t on
RECURSIVE transformPath(_, _, _, _, _, _, _)
transformPath(path, shape, obj_velocity, t, time_horizon, time_resolution, samples) ==
    IF ~(t < time_horizon + Epsilon) THEN samples
    ELSE LET obj_pose == calcInterpolatedPose_path(path, t)
         IN transformPath(path, shape, obj_velocity, t + time_resolution, time_horizon,
                          time_resolution,
                          IF obj_pose.defined
                          THEN Append(samples,
                                      [time |-> t, pose |-> obj_pose.pose,
                                       velocity |-> obj_velocity,
                                       poly |-> toPolygon2d(obj_pose.pose, shape)])
                          ELSE samples)

\* transform with the sampling bound t < horizon, without the 1e-3
transform_noepsilon(object, safety_check_time_horizon, safety_check_time_resolution) ==
    [uuid |-> object.object_id,
     initial_pose |-> Point(object.x, object.y),
     initial_twist |-> [x |-> object.vx, y |-> object.vy],
     shape |-> object.shape,
     predicted_paths |->
         [i \in 1..Len(object.predicted_paths) |->
             [confidence |-> object.predicted_paths[i].confidence,
              path |-> transformPath(object.predicted_paths[i], object.shape,
                                     object.vx, 0, safety_check_time_horizon - Epsilon,
                                     safety_check_time_resolution, <<>>)]]]

\* transform that leaves out the paths for which no sample could be made
transform_droppaths(object, safety_check_time_horizon, safety_check_time_resolution) ==
    LET all == [i \in 1..Len(object.predicted_paths) |->
                   [confidence |-> object.predicted_paths[i].confidence,
                    path |-> transformPath(object.predicted_paths[i], object.shape,
                                           object.vx, 0, safety_check_time_horizon,
                                           safety_check_time_resolution, <<>>)]]
    IN [uuid |-> object.object_id,
        initial_pose |-> Point(object.x, object.y),
        initial_twist |-> [x |-> object.vx, y |-> object.vy],
        shape |-> object.shape,
        predicted_paths |-> SelectSeq(all, LAMBDA q : q.path # <<>>)]

\* transform: the ExtendedPredictedObject of an object (its
\* initial_acceleration is carried over unchanged and read by nothing here)
transform(object, safety_check_time_horizon, safety_check_time_resolution) ==
    LET obj_velocity == object.vx
    IN [uuid |-> object.object_id,
        initial_pose |-> Point(object.x, object.y),
        initial_twist |-> [x |-> object.vx, y |-> object.vy],
        shape |-> object.shape,
        predicted_paths |->
            [i \in 1..Len(object.predicted_paths) |->
                [confidence |-> object.predicted_paths[i].confidence,
                 path |-> transformPath(object.predicted_paths[i], object.shape,
                                        obj_velocity, 0, safety_check_time_horizon,
                                        safety_check_time_resolution, <<>>)]]]

----------------------------------------------------------------------------
(* The road network seen through the RouteHandler *)

LaneCur1 == Lanelet("cur1", Rect(0, 0, 4, 2))
LaneCur2 == Lanelet("cur2", Rect(4, 0, 8, 2))
LaneLeft == Lanelet("left", Rect(0, 2, 8, 4))
LaneRight == Lanelet("right", Rect(0, -2, 4, 0))
LaneOpposite == Lanelet("opposite", Rect(0, 4, 8, 6))
LaneDegenerate == Lanelet("degenerate", <<>>)

\* RouteHandler::getAllLeftSharedLinestringLanelets
getAllLeftSharedLinestringLanelets(target_lane, include_opposite, invert_opposite) ==
    LET opposite == IF include_opposite THEN <<LaneOpposite>> ELSE <<>>
    IN IF target_lane.id \in {"cur1", "cur2"} THEN <<LaneLeft>> \o opposite
       ELSE IF target_lane.id = "right" THEN <<LaneCur1, LaneLeft>> \o opposite
       ELSE IF target_lane.id = "left" THEN opposite
       ELSE <<>>

\* RouteHandler::getAllRightSharedLinestringLanelets
getAllRightSharedLinestringLanelets(target_lane, include_opposite, invert_opposite) ==
    IF target_lane.id = "cur1" THEN <<LaneRight>>
    ELSE IF target_lane.id = "left" THEN <<LaneCur1, LaneCur2, LaneRight>>
    ELSE <<>>

----------------------------------------------------------------------------
(* objects_filtering.cpp: createTargetObjectsOnLane *)

\* all_left_lanelets after the loop over current_lanes, from the k-th lane on
RECURSIVE all_left_lanelets(_, _, _, _)
all_left_lanelets(current_lanes, include_opposite, invert_opposite, k) ==
    IF k > Len(current_lanes) THEN <<>>
    ELSE getAllLeftSharedLinestringLanelets(current_lanes[k], include_opposite,
                                            invert_opposite)
         \o all_left_lanelets(current_lanes, include_opposite, invert_opposite, k + 1)

\* all_right_lanelets after the loop over current_lanes, from the k-th lane on
RECURSIVE all_right_lanelets(_, _, _, _)
all_right_lanelets(current_lanes, include_opposite, invert_opposite, k) ==
    IF k > Len(current_lanes) THEN <<>>
    ELSE getAllRightSharedLinestringLanelets(current_lanes[k], include_opposite,
                                             invert_opposite)
         \o all_right_lanelets(current_lanes, include_opposite, invert_opposite, k + 1)

\* the lambda append_objects_on_lane, applied to an empty bucket
append_objects_on_lane(filtered_objects, check_lanes, params) ==
    LET within == SelectSeq(filtered_objects.objects,
                            LAMBDA object : isCentroidWithinLanelets(object, check_lanes))
    IN [k \in 1..Len(within) |->
            transform(within[k], params.safety_check_time_horizon,
                      params.safety_check_time_resolution)]

\* a variant that appends the objects of each lanelet of the list in turn
RECURSIVE append_per_lanelet(_, _, _, _)
append_per_lanelet(filtered_objects, check_lanes, params, k) ==
    IF k > Len(check_lanes) THEN <<>>
    ELSE append_objects_on_lane(filtered_objects, <<check_lanes[k]>>, params)
         \o append_per_lanelet(filtered_objects, check_lanes, params, k + 1)

createTargetObjectsOnLane_per_lanelet(current_lanes, filtered_objects, params) ==
    LET cfg == params.object_lane_configuration
        left == all_left_lanelets(current_lanes, params.include_opposite_lane,
                                  params.invert_opposite_lane, 1)
        right == all_right_lanelets(current_lanes, params.include_opposite_lane,
                                    params.invert_opposite_lane, 1)
    IN [on_current_lane |->
            IF cfg.check_current_lane /\ current_lanes # <<>>
            THEN append_per_lanelet(filtered_objects, current_lanes, params, 1)
            ELSE <<>>,
        on_left_lane |->
            IF cfg.check_left_lane /\ left # <<>>
            THEN append_per_lanelet(filtered_objects, left, params, 1)
            ELSE <<>>,
        on_right_lane |->
            IF cfg.check_right_lane /\ right # <<>>
            THEN append_per_lanelet(filtered_objects, right, params, 1)
            ELSE <<>>]

\* createTargetObjectsOnLane: the TargetObjectsOnLane
createTargetObjectsOnLane(current_lanes, filtered_objects, params) ==
    LET cfg == params.object_lane_configuration
        left == all_left_lanelets(current_lanes, params.include_opposite_lane,
                                  params.invert_opposite_lane, 1)
        right == all_right_lanelets(current_lanes, params.include_opposite_lane,
                                    params.invert_opposite_lane, 1)
    IN [on_current_lane |->
            IF cfg.check_current_lane /\ current_lanes # <<>>
            THEN append_objects_on_lane(filtered_objects, current_lanes, params)
            ELSE <<>>,
        on_left_lane |->
            IF cfg.check_left_lane /\ left # <<>>
            THEN append_objects_on_lane(filtered_objects, left, params)
            ELSE <<>>,
        on_right_lane |->
            IF cfg.check_right_lane /\ right # <<>>
            THEN append_objects_on_lane(filtered_objects, right, params)
            ELSE <<>>]

----------------------------------------------------------------------------
(* Inputs of the lanelet operations *)

\* longest list of target lanelets drawn as an input
MaxLanelets == 2

\* a predicted path of two poses one second apart, starting at (x, y)
StraightPath(x, y) == PredictedPath(100, 1000, <<Point(x, y), Point(x + 2, y)>>)

LaneCatalogue ==
    { PredictedObject("in_cur1", 3, 4, 2, 1, <<Cls("CAR", 90)>>, UnitShape,
                      <<StraightPath(2, 1)>>),
      PredictedObject("on_edge", 0, 0, 2, 2, <<Cls("CAR", 90)>>, UnitShape,
                      <<StraightPath(2, 2)>>),
      PredictedObject("in_left", -3, 4, 6, 3, <<Cls("BUS", 90)>>, UnitShape,
                      <<StraightPath(6, 3), PredictedPath(50, 1000, <<Point(6, 3)>>)>>),
      PredictedObject("touching", 0, 5, 9, 1, <<Cls("TRUCK", 90)>>, UnitShape, <<>>),
      PredictedObject("far", 5, 0, 20, 20, <<Cls("CAR", 90)>>, UnitShape,
                      <<StraightPath(20, 20)>>) }

LaneBatches ==
    {[header |-> InputHeader, objects |-> s] : s \in SeqsUpTo(LaneCatalogue, MaxObjects)}

TargetLanelets ==
    SeqsUpTo({LaneCur1, LaneCur2, LaneLeft, LaneRight, LaneOpposite, LaneDegenerate},
             MaxLanelets)

CurrentLanes == SeqsUpTo({LaneCur1, LaneCur2, LaneRight}, MaxLanelets)

LaneParams ==
    [object_lane_configuration :
         [check_current_lane : BOOLEAN, check_left_lane : BOOLEAN,
          check_right_lane : BOOLEAN],
     include_opposite_lane : BOOLEAN,
     invert_opposite_lane : {FALSE},
     safety_check_time_horizon : {1000},
     safety_check_time_resolution : {500}]

----------------------------------------------------------------------------
(* The lanelet operations as steps of a caller *)

InitLanelet ==
    /\ batch \in LaneBatches
    /\ call = NoCall
    /\ ret = NoRet
    /\ route_queries = 0
    /\ InitCreator

SeparateObjectIndicesByLanelets ==
    /\ call.op = "none"
    /\ \E target_lanelets \in TargetLanelets :
        /\ call' = [op |-> "separateObjectIndicesByLanelets", objects |-> batch,
                    target_lanelets |-> target_lanelets]
        /\ ret' = separateObjectIndicesByLanelets(batch, target_lanelets)
    /\ UNCHANGED <<batch, route_queries>>
    /\ UNCHANGED creator_vars

SeparateObjectsByLanelets ==
    /\ call.op = "none"
    /\ \E target_lanelets \in TargetLanelets :
        /\ call' = [op |-> "separateObjectsByLanelets", objects |-> batch,
                    target_lanelets |-> target_lanelets]
        /\ ret' = separateObjectsByLanelets(batch, target_lanelets)
    /\ UNCHANGED <<batch, route_queries>>
    /\ UNCHANGED creator_vars

IsCentroidWithinLanelets ==
    /\ call.op = "none"
    /\ \E i \in 1..Len(batch.objects), target_lanelets \in TargetLanelets :
        /\ call' = [op |-> "isCentroidWithinLanelets", object |-> batch.objects[i],
                    target_lanelets |-> target_lanelets]
        /\ ret' = isCentroidWithinLanelets(batch.objects[i], target_lanelets)
    /\ UNCHANGED <<batch, route_queries>>
    /\ UNCHANGED creator_vars

CreateTargetObjectsOnLane ==
    /\ call.op = "none"
    /\ \E current_lanes \in CurrentLanes, params \in LaneParams :
        /\ call' = [op |-> "createTargetObjectsOnLane", current_lanes |-> current_lanes,
                    filtered_objects |-> batch, params |-> params]
        /\ ret' = createTargetObjectsOnLane(current_lanes, batch, params)
    /\ UNCHANGED <<batch, route_queries>>
    /\ UNCHANGED creator_vars

NextLanelet ==
    \/ SeparateObjectIndicesByLanelets
    \/ SeparateObjectsByLanelets
    \/ IsCentroidWithinLanelets
    \/ CreateTargetObjectsOnLane

SpecLanelet == InitLanelet /\ [][NextLanelet]_vars

----------------------------------------------------------------------------
(* objects_filtering.cpp: projection of the ego vehicle                      *)
(* Units: time ms, length um, velocity mm/s (= um/ms), acceleration m/s^2    *)
(* (= um/ms^2), so that v * t and a * t * t / 2 are lengths in um.           *)

\* behavior_path_planner::utils::convertToFrenetPoint: the arc-length
\* coordinate of the position along the path and its lateral offset
convertToFrenetPoint(path_points, position, ego_seg_idx) ==
    [length |-> position.x - path_points[1].x, distance |-> position.y]

\* motion_utils::calcInterpolatedPose(points, target_length): the pose of the
\* path at the arc length, the first pose before the path and the last after it
calcInterpolatedPose(path_points, target_length) ==
    LET total == path_points[Len(path_points)].x - path_points[1].x
    IN IF target_length < 0 THEN path_points[1]
       ELSE IF target_length >= total THEN path_points[Len(path_points)]
       ELSE Point(path_points[1].x + target_length, path_points[1].y)

\* the length travelled after t: current_velocity * t + 0.5 * acceleration * t * t
travelled_length(current_velocity, acceleration, t) ==
    current_velocity * t + (acceleration * t * t) \div 2

\* the same loop with the bound t < time_horizon, without the 1e-3
RECURSIVE predictedPathLoop_noepsilon(_, _, _, _, _, _)
predictedPathLoop_noepsilon(params, path_points, frenet_length, current_velocity, t, predicted_path) ==
    IF ~(t < params.time_horizon) THEN predicted_path
    ELSE LET velocity == Max(current_velocity + params.acceleration * t,
                             params.min_slow_speed)
             length == travelled_length(current_velocity, params.acceleration, t)
             pose == calcInterpolatedPose(path_points, frenet_length + length)
         IN predictedPathLoop_noepsilon(params, path_points, frenet_length, current_velocity,
                              t + params.time_resolution,
                              Append(predicted_path,
                                     [time |-> t, pose |-> pose, velocity |-> velocity]))

createPredictedPath_noepsilon(params, path_points, vehicle_pose, current_velocity, ego_seg_idx) ==
    IF path_points = <<>> THEN <<>>
    ELSE predictedPathLoop_noepsilon(
             params, path_points,
             convertToFrenetPoint(path_points, vehicle_pose, ego_seg_idx).length,
             current_velocity, 0, <<>>)

\* the sampling loop of createPredictedPath, from time t on
RECURSIVE predictedPathLoop(_, _, _, _, _, _)
predictedPathLoop(params, path_points, frenet_length, current_velocity, t, predicted_path) ==
    IF ~(t < params.time_horizon + Epsilon) THEN predicted_path
    ELSE LET velocity == Max(current_velocity + params.acceleration * t,
                             params.min_slow_speed)
             length == travelled_length(current_velocity, params.acceleration, t)
             pose == calcInterpolatedPose(path_points, frenet_length + length)
         IN predictedPathLoop(params, path_points, frenet_length, current_velocity,
                              t + params.time_resolution,
                              Append(predicted_path,
                                     [time |-> t, pose |-> pose, velocity |-> velocity]))

\* createPredictedPath: the samples (time, pose, velocity)
createPredictedPath(params, path_points, vehicle_pose, current_velocity, ego_seg_idx) ==
    IF path_points = <<>> THEN <<>>
    ELSE predictedPathLoop(
             params, path_points,
             convertToFrenetPoint(path_points, vehicle_pose, ego_seg_idx).length,
             current_velocity, 0, <<>>)

----------------------------------------------------------------------------
(* Inputs of the ego projection *)

\* centerlines: none, a short one (4 m) and a long one (40 m), in um
PathPointSets ==
    { <<>>,
      <<Point(0, 0), Point(4000000, 0)>>,
      <<Point(0, 0), Point(10000000, 0), Point(40000000, 0)>> }

EgoPredictedPathParams ==
    [min_slow_speed : {0, 1000},
     acceleration : {-10, 0, 2},
     time_horizon : {-1000, 0, 1000, 2500, 3000},
     time_resolution : {500, 1000, 2000}]

VehiclePoses == {Point(0, 0), Point(2000000, 0)}
CurrentVelocities == {0, 5000}

----------------------------------------------------------------------------
(* The ego projection as a step of a caller *)

InitEgo ==
    /\ batch = PredictedObjects
    /\ call = NoCall
    /\ ret = NoRet
    /\ route_queries = 0
    /\ InitCreator

CreatePredictedPath ==
    /\ call.op = "none"
    /\ \E params \in EgoPredictedPathParams, path_points \in PathPointSets,
          vehicle_pose \in VehiclePoses, current_velocity \in CurrentVelocities :
        /\ call' = [op |-> "createPredictedPath", params |-> params,
                    path_points |-> path_points, vehicle_pose |-> vehicle_pose,
                    current_velocity |-> current_velocity, ego_seg_idx |-> 0]
        /\ ret' = createPredictedPath(params, path_points, vehicle_pose,
                                      current_velocity, 0)
    /\ UNCHANGED <<batch, route_queries>>
    /\ UNCHANGED creator_vars

NextEgo == CreatePredictedPath

SpecEgo == InitEgo /\ [][NextEgo]_vars

----------------------------------------------------------------------------
(* objects_filtering.cpp: getPredictedPathFromObj *)

\* std::max_element over predicted_paths with the comparison
\* path1.confidence < path2.confidence, from position it on: the position of
\* the result (0 stands for end())
RECURSIVE max_element(_, _, _)
max_element(predicted_paths, it, largest) ==
    IF it > Len(predicted_paths) THEN largest
    ELSE IF largest = 0
         THEN max_element(predicted_paths, it + 1, it)
         ELSE IF predicted_paths[largest].confidence < predicted_paths[it].confidence
              THEN max_element(predicted_paths, it + 1, it)
              ELSE max_element(predicted_paths, it + 1, largest)

\* the same selection with a comparison that also replaces on equality
RECURSIVE max_element_last(_, _, _)
max_element_last(predicted_paths, it, largest) ==
    IF it > Len(predicted_paths) THEN largest
    ELSE IF largest = 0
         THEN max_element_last(predicted_paths, it + 1, it)
         ELSE IF predicted_paths[largest].confidence <= predicted_paths[it].confidence
              THEN max_element_last(predicted_paths, it + 1, it)
              ELSE max_element_last(predicted_paths, it + 1, largest)

getPredictedPathFromObj_lastmax(obj, is_use_all_predicted_path) ==
    LET max_confidence_path == max_element_last(obj.predicted_paths, 1, 0)
    IN IF ~is_use_all_predicted_path /\ max_confidence_path # 0
       THEN <<obj.predicted_paths[max_confidence_path]>>
       ELSE obj.predicted_paths

\* getPredictedPathFromObj
getPredictedPathFromObj(obj, is_use_all_predicted_path) ==
    LET max_confidence_path == max_element(obj.predicted_paths, 1, 0)
    IN IF ~is_use_all_predicted_path /\ max_confidence_path # 0
       THEN <<obj.predicted_paths[max_confidence_path]>>
       ELSE obj.predicted_paths

----------------------------------------------------------------------------
(* Inputs of the other-agent projection *)

\* a predicted path of four poses one second apart (spans 3 s)
LongPath(confidence, x, y) ==
    PredictedPath(confidence, 1000,
                  <<Point(x, y), Point(x + 2, y), Point(x + 4, y), Point(x + 8, y + 2)>>)

\* a predicted path of two poses one second apart (spans 1 s)
ShortPath(confidence, x, y) ==
    PredictedPath(confidence, 1000, <<Point(x, y), Point(x + 2, y)>>)

\* a predicted path of one pose, at t = 0
SinglePointPath(confidence, x, y) == PredictedPath(confidence, 1000, <<Point(x, y)>>)

\* a predicted path without poses
EmptyPath(confidence) == PredictedPath(confidence, 1000, <<>>)

TransformCatalogue ==
    { PredictedObject("tied", 3, 4, 0, 0, <<Cls("CAR", 90)>>, UnitShape,
                      <<LongPath(50, 0, 0), ShortPath(80, 0, 0), SinglePointPath(80, 0, 0)>>),
      PredictedObject("single", -3, -4, 2, 2, <<Cls("CAR", 90)>>, UnitShape,
                      <<SinglePointPath(100, 2, 2)>>),
      PredictedObject("no_path", 5, 0, 4, 0, <<Cls("BUS", 90)>>, UnitShape, <<>>),
      PredictedObject("empty_path", 0, 0, 6, 0, <<Cls("TRUCK", 90)>>, UnitShape,
                      <<EmptyPath(30), LongPath(30, 6, 0)>>) }

TransformBatches ==
    {[header |-> InputHeader, objects |-> s] :
        s \in SeqsUpTo(TransformCatalogue, MaxObjects)}

TimeHorizons == {0, 1000, 2500, 3000}
TimeResolutions == {500, 1000, 2000}

----------------------------------------------------------------------------
(* The other-agent projection as steps of a caller *)

InitTransform ==
    /\ batch \in TransformBatches
    /\ call = NoCall
    /\ ret = NoRet
    /\ route_queries = 0
    /\ InitCreator

\* a caller projects one object of its batch
Transform ==
    /\ call.op = "none"
    /\ \E i \in 1..Len(batch.objects), horizon \in TimeHorizons,
          resolution \in TimeResolutions :
        /\ call' = [op |-> "transform", object |-> batch.objects[i],
                    safety_check_time_horizon |-> horizon,
                    safety_check_time_resolution |-> resolution]
        /\ ret' = transform(batch.objects[i], horizon, resolution)
    /\ UNCHANGED <<batch, route_queries>>
    /\ UNCHANGED creator_vars

\* the caller selects the predicted paths of the ExtendedPredictedObject
GetPredictedPathFromObj ==
    /\ call.op = "transform"
    /\ \E is_use_all_predicted_path \in BOOLEAN :
        /\ call' = [op |-> "getPredictedPathFromObj", obj |-> ret,
                    is_use_all_predicted_path |-> is_use_all_predicted_path]
        /\ ret' = getPredictedPathFromObj(ret, is_use_all_predicted_path)
    /\ UNCHANGED <<batch, route_queries>>
    /\ UNCHANGED creator_vars

NextTransform ==
    \/ Transform
    \/ GetPredictedPathFromObj

SpecTransform == InitTransform /\ [][NextTransform]_vars

----------------------------------------------------------------------------
(* virtual_wall_marker_creator.cpp: VirtualWallMarkerCreator *)

\* most walls a caller adds between two create_markers calls
MaxWalls == 2

\* a VirtualWall: its text, style and namespace (pose and longitudinal_offset
\* only place the marker)
VirtualWall(text, style, ns) == [text |-> text, style |-> style, ns |-> ns]

\* a visualization_msgs Marker: namespace, id, action and, for its content,
\* the text of the wall it was made for
Marker(ns, id, action, text) == [ns |-> ns, id |-> id, action |-> action, text |-> text]

\* MarkerCount: the markers of a namespace in the previous and the current call
MarkerCount(previous, current) == [previous |-> previous, current |-> current]

\* motion_utils::createVirtualWallMarkerArray: a wall marker and a text marker,
\* both added, in the namespaces ns_prefix + "virtual_wall" / "factor_text"
createVirtualWallMarkerArray(text, id, ns_prefix) ==
    <<Marker(ns_prefix \o "virtual_wall", id, "ADD", text),
      Marker(ns_prefix \o "factor_text", id, "ADD", text)>>

createStopVirtualWallMarker(text, id, ns_prefix) ==
    createVirtualWallMarkerArray(text, id, ns_prefix \o "stop_")

createSlowDownVirtualWallMarker(text, id, ns_prefix) ==
    createVirtualWallMarkerArray(text, id, ns_prefix \o "slow_down_")

createDeadLineVirtualWallMarker(text, id, ns_prefix) ==
    createVirtualWallMarkerArray(text, id, ns_prefix \o "dead_line_")

\* the switch on virtual_wall.style and the call of create_fn with id 0
create_fn(virtual_wall) ==
    CASE virtual_wall.style = "stop" ->
             createStopVirtualWallMarker(virtual_wall.text, 0, virtual_wall.ns)
      [] virtual_wall.style = "slowdown" ->
             createSlowDownVirtualWallMarker(virtual_wall.text, 0, virtual_wall.ns)
      [] virtual_wall.style = "deadline" ->
             createDeadLineVirtualWallMarker(virtual_wall.text, 0, virtual_wall.ns)

\* marker_count_per_namespace[ns] read: a missing entry is value-initialised
count_at(counts, ns) == IF ns \in DOMAIN counts THEN counts[ns] ELSE MarkerCount(0, 0)

\* marker_count_per_namespace[ns] written
count_put(counts, ns, count) ==
    [n \in (DOMAIN counts) \cup {ns} |-> IF n = ns THEN count ELSE counts[n]]

\* the loop over the markers of one wall: marker.id = count[marker.ns].current++
RECURSIVE number_markers(_, _, _)
number_markers(markers, counts, array) ==
    IF markers = <<>> THEN [counts |-> counts, markers |-> array]
    ELSE LET marker == Head(markers)
             count == count_at(counts, marker.ns)
         IN number_markers(
                Tail(markers),
                count_put(counts, marker.ns, MarkerCount(count.previous, count.current + 1)),
                Append(array, Marker(marker.ns, count.current, marker.action, marker.text)))

\* the loop over virtual_walls that converts each wall to markers
RECURSIVE convert_to_markers(_, _, _)
convert_to_markers(walls, counts, array) ==
    IF walls = <<>> THEN [counts |-> counts, markers |-> array]
    ELSE LET r == number_markers(create_fn(Head(walls)), counts, array)
         IN convert_to_markers(Tail(walls), r.counts, r.markers)

\* the DELETE markers: per namespace the ids current .. previous - 1
create_delete_markers(counts) ==
    UNION {{Marker(ns, id, "DELETE", "") : id \in counts[ns].current..(counts[ns].previous - 1)} :
              ns \in DOMAIN counts}

\* cleanup: erases the namespaces unused in the previous and the current call
\* and clears the walls
cleanup(creator) ==
    LET counts == creator.marker_count_per_namespace
        used == {ns \in DOMAIN counts :
                    ~(counts[ns].previous = 0 /\ counts[ns].current = 0)}
    IN [virtual_walls |-> <<>>,
        marker_count_per_namespace |-> [ns \in used |-> counts[ns]]]

add_virtual_wall(walls, virtual_wall) == Append(walls, virtual_wall)

add_virtual_walls(virtual_walls_, walls) == virtual_walls_ \o walls

\* create_markers without count.current = 0: the counters keep counting
create_markers_noreset(creator) ==
    LET counts == creator.marker_count_per_namespace
        updated == [ns \in DOMAIN counts |->
                       MarkerCount(counts[ns].current, counts[ns].current)]
        converted == convert_to_markers(creator.virtual_walls, updated, <<>>)
    IN [marker_array |-> MarkerArray(converted.markers,
                                     create_delete_markers(converted.counts)),
        creator |-> cleanup([virtual_walls |-> creator.virtual_walls,
                             marker_count_per_namespace |-> converted.counts])]

\* create_markers without count.previous = count.current
create_markers_noprevious(creator) ==
    LET counts == creator.marker_count_per_namespace
        updated == [ns \in DOMAIN counts |-> MarkerCount(counts[ns].previous, 0)]
        converted == convert_to_markers(creator.virtual_walls, updated, <<>>)
    IN [marker_array |-> MarkerArray(converted.markers,
                                     create_delete_markers(converted.counts)),
        creator |-> cleanup([virtual_walls |-> creator.virtual_walls,
                             marker_count_per_namespace |-> converted.counts])]

\* create_markers: the returned array and the creator afterwards (the time
\* stamp now only stamps the markers)
create_markers(creator) ==
    LET counts == creator.marker_count_per_namespace
        updated == [ns \in DOMAIN counts |-> MarkerCount(counts[ns].current, 0)]
        converted == convert_to_markers(creator.virtual_walls, updated, <<>>)
    IN [marker_array |-> MarkerArray(converted.markers,
                                     create_delete_markers(converted.counts)),
        creator |-> cleanup([virtual_walls |-> creator.virtual_walls,
                             marker_count_per_namespace |-> converted.counts])]

\* a viewer receives one marker: ADD adds or replaces the marker of that
\* namespace and id, DELETE removes it
apply_marker(view, marker) ==
    LET others == {v \in view : ~(v.ns = marker.ns /\ v.id = marker.id)}
    IN IF marker.action = "DELETE" THEN others
       ELSE others \cup {[ns |-> marker.ns, id |-> marker.id, text |-> marker.text]}

RECURSIVE apply_markers(_, _)
apply_markers(view, markers) ==
    IF markers = <<>> THEN view
    ELSE apply_markers(apply_marker(view, Head(markers)), Tail(markers))

\* a viewer receives a marker array
apply_marker_array(view, marker_array) ==
    LET added == apply_markers(view, marker_array.markers)
    IN {v \in added : \A d \in marker_array.deletes : ~(v.ns = d.ns /\ v.id = d.id)}

----------------------------------------------------------------------------
(* The VirtualWallMarkerCreator as steps of a caller *)

\* the walls a caller adds: one of each style
WallKinds ==
    { VirtualWall("stop A", "stop", "a_"),
      VirtualWall("slow A", "slowdown", "a_"),
      VirtualWall("dead B", "deadline", "b_") }

InitWall ==
    /\ batch = PredictedObjects
    /\ call = NoCall
    /\ ret = NoRet
    /\ route_queries = 0
    /\ InitCreator

AddVirtualWall ==
    /\ Len(virtual_walls) < MaxWalls
    /\ \E virtual_wall \in WallKinds :
        /\ virtual_walls' = add_virtual_wall(virtual_walls, virtual_wall)
        /\ call' = [op |-> "add_virtual_wall", virtual_wall |-> virtual_wall]
    /\ ret' = NoRet
    /\ UNCHANGED <<batch, route_queries, marker_count_per_namespace, published, viewer>>

AddVirtualWalls ==
    /\ \E walls \in SeqsUpTo(WallKinds, MaxWalls) :
        /\ Len(virtual_walls) + Len(walls) <= MaxWalls
        /\ virtual_walls' = add_virtual_walls(virtual_walls, walls)
        /\ call' = [op |-> "add_virtual_walls", walls |-> walls]
    /\ ret' = NoRet
    /\ UNCHANGED <<batch, route_queries, marker_count_per_namespace, published, viewer>>

\* create_markers; the returned array is published and reaches the viewer
CreateMarkers ==
    /\ LET r == create_markers([virtual_walls |-> virtual_walls,
                                marker_count_per_namespace |-> marker_count_per_namespace])
       IN /\ call' = [op |-> "create_markers", virtual_walls |-> virtual_walls]
          /\ ret' = r.marker_array
          /\ virtual_walls' = r.creator.virtual_walls
          /\ marker_count_per_namespace' = r.creator.marker_count_per_namespace
          /\ published' = r.marker_array
          /\ viewer' = apply_marker_array(viewer, r.marker_array)
    /\ UNCHANGED <<batch, route_queries>>

NextWall ==
    \/ AddVirtualWall
    \/ AddVirtualWalls
    \/ CreateMarkers

SpecWall == InitWall /\ [][NextWall]_vars

----------------------------------------------------------------------------
(* Properties of the filtering operations *)

\* the indices of the elements of a sequence that satisfy P
KeptIndices(in, P(_)) == {i \in 1..Len(in) : P(in[i])}

\* out holds exactly the elements of in that satisfy P, each once, in the
\* order of in
IsOrderedSelection(out, in, P(_)) ==
    LET K == KeptIndices(in, P)
    IN /\ Len(out) = Cardinality(K)
       /\ \A i \in K : out[Cardinality({j \in K : j <= i})] = in[i]

\* the planar speed magnitude s of an object lies strictly between lo and hi
SpeedStrictlyBetween(obj, lo, hi) ==
    \E s \in 0..(obj.vx * obj.vx + obj.vy * obj.vy) :
        /\ s * s = obj.vx * obj.vx + obj.vy * obj.vy
        /\ lo < s
        /\ s < hi

SpeedStrictlyAbove(obj, lo) ==
    \E s \in 0..(obj.vx * obj.vx + obj.vy * obj.vy) :
        /\ s * s = obj.vx * obj.vx + obj.vy * obj.vy
        /\ lo < s

\* the labels whose enable flag is set
EnabledLabels(types) ==
    {l \in Labels :
        \/ l = "CAR" /\ types.check_car
        \/ l = "TRUCK" /\ types.check_truck
        \/ l = "BUS" /\ types.check_bus
        \/ l = "TRAILER" /\ types.check_trailer
        \/ l = "UNKNOWN" /\ types.check_unknown
        \/ l = "BICYCLE" /\ types.check_bicycle
        \/ l = "MOTORCYCLE" /\ types.check_motorcycle
        \/ l = "PEDESTRIAN" /\ types.check_pedestrian}

\* the object lies strictly inside the longitudinal window around the ego
InWindow(obj, ego, forward, backward) ==
    /\ 0 - backward < obj.x - ego.x
    /\ obj.x - ego.x < forward

\* C1: filterObjects returns an empty batch for an empty input without
\* querying the route; for a non-empty input it queries the route once and
\* the batch after the first stage holds the input objects faster than the
\* threshold, the batch after the second stage those of the first with an
\* enabled class, and the returned batch those of the second inside the
\* longitudinal window, each in input order
C1_FilterObjectsPipeline ==
    call.op = "filterObjects" =>
        LET in == call.objects.objects
            p == call.params
        IN IF in = <<>>
           THEN /\ ret.objects.objects = <<>>
                /\ route_queries = 0
           ELSE /\ route_queries = 1
                /\ Len(ret.stages) = 3
                /\ IsOrderedSelection(ret.stages[1].objects, in,
                       LAMBDA o : SpeedStrictlyAbove(o, p.ignore_object_velocity_threshold))
                /\ IsOrderedSelection(ret.stages[2].objects, ret.stages[1].objects,
                       LAMBDA o : getHighestProbLabel(o.classification)
                                      \in EnabledLabels(p.object_types_to_check))
                /\ IsOrderedSelection(ret.stages[3].objects, ret.stages[2].objects,
                       LAMBDA o : InWindow(o, call.current_pose,
                                           p.object_check_forward_distance,
                                           p.object_check_backward_distance))
                /\ ret.objects.objects = ret.stages[3].objects
                /\ IsOrderedSelection(ret.objects.objects, in,
                       LAMBDA o :
                           /\ SpeedStrictlyAbove(o, p.ignore_object_velocity_threshold)
                           /\ getHighestProbLabel(o.classification)
                                  \in EnabledLabels(p.object_types_to_check)
                           /\ InWindow(o, call.current_pose,
                                       p.object_check_forward_distance,
                                       p.object_check_backward_distance))

\* a two-object batch of which the class gate alone removes one and the
\* other passes all three gates
C1_Witness ==
    /\ call.op = "filterObjects"
    /\ Len(call.objects.objects) = 2
    /\ Len(ret.stages[1].objects) = 2
    /\ Len(ret.stages[2].objects) = 1
    /\ Len(ret.objects.objects) = 1
    /\ route_queries = 1

\* C2: filterObjectsByVelocity(objects, v, max) returns exactly the objects
\* whose speed s = hypot(vx, vy) satisfies v < s < max, in input order, none
\* duplicated
C2_VelocityRange ==
    call.op = "filterObjectsByVelocity" =>
        IsOrderedSelection(ret.objects.objects, call.objects.objects,
            LAMBDA o : SpeedStrictlyBetween(o, call.velocity_threshold, call.max_velocity))

\* a batch with an object exactly at the upper bound (removed) and an object
\* strictly inside the bounds (kept)
C2_Witness ==
    /\ call.op = "filterObjectsByVelocity"
    /\ Len(call.objects.objects) = 2
    /\ \E i \in 1..2 : Hypot(call.objects.objects[i].vx, call.objects.objects[i].vy)
                           = call.max_velocity
    /\ Len(ret.objects.objects) = 1
    /\ Hypot(ret.objects.objects[1].vx, ret.objects.objects[1].vy) > call.velocity_threshold

\* C3: the boolean-flag overload keeps the speeds strictly inside
\* (-threshold, +threshold) when remove_above_threshold is set and strictly
\* above threshold otherwise, and the results of the two modes share no object
C3_VelocityFlag ==
    call.op = "filterObjectsByVelocity_bool" =>
        LET thr == call.velocity_threshold
            other == filterObjectsByVelocity_bool(call.objects, thr,
                                                  ~call.remove_above_threshold)
        IN /\ IF call.remove_above_threshold
              THEN IsOrderedSelection(ret.objects.objects, call.objects.objects,
                       LAMBDA o : SpeedStrictlyBetween(o, 0 - thr, thr))
              ELSE IsOrderedSelection(ret.objects.objects, call.objects.objects,
                       LAMBDA o : SpeedStrictlyAbove(o, thr))
           /\ \A i \in 1..Len(ret.objects.objects), j \in 1..Len(other.objects) :
                  ret.objects.objects[i] # other.objects[j]

\* remove_above_threshold keeps a slower object and drops a faster one that
\* the other mode would keep
C3_Witness ==
    /\ call.op = "filterObjectsByVelocity_bool"
    /\ call.remove_above_threshold
    /\ Len(call.objects.objects) = 2
    /\ Len(ret.objects.objects) = 1
    /\ Len(filterObjectsByVelocity_bool(call.objects, call.velocity_threshold,
                                        FALSE).objects) = 1

\* C4: filterObjectsByClass keeps, in input order, exactly the objects whose
\* highest-probability label (first-listed among equal maxima) is one of the
\* eight classes and has its enable flag set
C4_ClassGate ==
    call.op = "filterObjectsByClass" =>
        IsOrderedSelection(batch.objects, call.objects.objects,
            LAMBDA o :
                \E i \in 1..Len(o.classification) :
                    /\ \A j \in 1..Len(o.classification) :
                           o.classification[j].probability <= o.classification[i].probability
                    /\ \A j \in 1..(i - 1) :
                           o.classification[j].probability < o.classification[i].probability
                    /\ o.classification[i].label \in EnabledLabels(call.target_object_types))

\* an object whose two entries tie, kept because the first-listed label is
\* enabled although the second is not
C4_Witness ==
    /\ call.op = "filterObjectsByClass"
    /\ Len(call.objects.objects) = 2
    /\ Len(batch.objects) = 1
    /\ LET c == batch.objects[1].classification
       IN /\ Len(c) = 2
          /\ c[1].probability = c[2].probability
          /\ c[1].label \in EnabledLabels(call.target_object_types)
          /\ c[2].label \notin EnabledLabels(call.target_object_types)

\* C5: filterObjectsByPosition keeps, in input order, exactly the objects whose
\* signed arc length d from the ego satisfies -backward < d < forward; with
\* backward = forward = 0 it keeps no object that is not at arc length 0
C5_PositionWindow ==
    call.op = "filterObjectsByPosition" =>
        /\ IsOrderedSelection(batch.objects, call.objects.objects,
               LAMBDA o : /\ 0 - call.backward_distance < o.x - call.current_pose.x
                          /\ o.x - call.current_pose.x < call.forward_distance)
        /\ (call.forward_distance = 0 /\ call.backward_distance = 0) =>
               \A i \in 1..Len(batch.objects) : batch.objects[i].x = call.current_pose.x

\* an object exactly at the forward bound is removed while an object behind
\* the ego, inside the window, is kept
C5_Witness ==
    /\ call.op = "filterObjectsByPosition"
    /\ call.forward_distance # call.backward_distance
    /\ Len(call.objects.objects) = 2
    /\ \E i \in 1..2 : call.objects.objects[i].x - call.current_pose.x
                           = call.forward_distance
    /\ Len(batch.objects) = 1
    /\ batch.objects[1].x - call.current_pose.x < 0

----------------------------------------------------------------------------
(* Properties of the lanelet operations *)

\* the lanelets of a list, as a set
LaneletSet(lanelets) == {lanelets[k] : k \in 1..Len(lanelets)}

\* the closed footprint of the object and the closed region of the ring share
\* a grid point
FootprintMeets(obj, ring) ==
    \E px \in (obj.x - obj.shape.hx)..(obj.x + obj.shape.hx),
       py \in (obj.y - obj.shape.hy)..(obj.y + obj.shape.hy) :
        \E v \in 1..Len(ring), w \in 1..Len(ring) :
            /\ ring[v].x <= px /\ px <= ring[w].x
            /\ ring[v].y <= py /\ py <= ring[w].y

\* the centroid of the object lies strictly inside the ring
CentroidStrictlyInside(obj, ring) ==
    \E v \in 1..Len(ring), w \in 1..Len(ring) :
        /\ ring[v].x < obj.x /\ obj.x < ring[w].x
        /\ ring[v].y < obj.y /\ obj.y < ring[w].y

\* the centroid of the object lies on the boundary of the ring
CentroidOnBoundary(obj, ring) ==
    /\ ~CentroidStrictlyInside(obj, ring)
    /\ \E v \in 1..Len(ring), w \in 1..Len(ring) :
        /\ ring[v].x <= obj.x /\ obj.x <= ring[w].x
        /\ ring[v].y <= obj.y /\ obj.y <= ring[w].y

\* number of positions of a sequence that hold the value
Occurrences(seq, value) == Cardinality({k \in 1..Len(seq) : seq[k] = value})

StrictlyIncreasing(seq) == \A k \in 1..(Len(seq) - 1) : seq[k] < seq[k + 1]

\* C6: partitioning by an empty target-lanelet list returns two empty outputs
C6_EmptyLaneletsGiveEmptyPair ==
    /\ (call.op = "separateObjectIndicesByLanelets" /\ call.target_lanelets = <<>>) =>
           (ret.first = <<>> /\ ret.second = <<>>)
    /\ (call.op = "separateObjectsByLanelets" /\ call.target_lanelets = <<>>) =>
           (ret.first.objects = <<>> /\ ret.second.objects = <<>>)

\* a batch of two objects partitioned by no lanelet
C6_Witness ==
    /\ call.op = "separateObjectsByLanelets"
    /\ call.target_lanelets = <<>>
    /\ Len(call.objects.objects) = 2
    /\ ret.first.objects = <<>>
    /\ ret.second.objects = <<>>

\* C7: for a non-empty target list every object index is in exactly one of
\* the two outputs, once; both outputs are increasing; an index is in the
\* first output iff the footprint meets a target lanelet with a non-empty
\* polygon, so degenerate lanelets match nothing
C7_IndexPartition ==
    (call.op = "separateObjectIndicesByLanelets" /\ call.target_lanelets # <<>>) =>
        LET in == call.objects.objects
            target == ret.first
            other == ret.second
        IN /\ \A k \in 1..Len(target) : target[k] \in 0..(Len(in) - 1)
           /\ \A k \in 1..Len(other) : other[k] \in 0..(Len(in) - 1)
           /\ \A i \in 0..(Len(in) - 1) :
                  Occurrences(target, i) + Occurrences(other, i) = 1
           /\ StrictlyIncreasing(target)
           /\ StrictlyIncreasing(other)
           /\ \A i \in 0..(Len(in) - 1) :
                  Occurrences(target, i) = 1 <=>
                      \E llt \in LaneletSet(call.target_lanelets) :
                          /\ llt.polygon2d # <<>>
                          /\ FootprintMeets(in[i + 1], llt.polygon2d)
           /\ (\A llt \in LaneletSet(call.target_lanelets) : llt.polygon2d = <<>>) =>
                  (target = <<>> /\ Len(other) = Len(in))

\* the first object meets both of two target lanelets and is listed once, the
\* second meets none
C7_Witness ==
    /\ call.op = "separateObjectIndicesByLanelets"
    /\ Len(call.target_lanelets) = 2
    /\ call.target_lanelets[1] # call.target_lanelets[2]
    /\ Len(call.objects.objects) = 2
    /\ \A k \in 1..2 :
           /\ call.target_lanelets[k].polygon2d # <<>>
           /\ FootprintMeets(call.objects.objects[1], call.target_lanelets[k].polygon2d)
    /\ ret.first = <<0>>
    /\ ret.second = <<1>>

\* C8: isCentroidWithinLanelets is false for an empty lanelet list and
\* otherwise true iff the centroid lies strictly inside one of the lanelet
\* polygons; a centroid on a boundary and inside no lanelet gives false
C8_CentroidStrictlyWithin ==
    call.op = "isCentroidWithinLanelets" =>
        /\ ret = (\E llt \in LaneletSet(call.target_lanelets) :
                      CentroidStrictlyInside(call.object, llt.polygon2d))
        /\ call.target_lanelets = <<>> => ret = FALSE

\* a centroid on the common edge of two lanelets: false
C8_Witness ==
    /\ call.op = "isCentroidWithinLanelets"
    /\ Len(call.target_lanelets) = 2
    /\ \A k \in 1..2 : CentroidOnBoundary(call.object, call.target_lanelets[k].polygon2d)
    /\ ret = FALSE

\* out holds F of exactly the elements of in that satisfy P, each once, in
\* the order of in
IsOrderedProjection(out, in, P(_), F(_)) ==
    LET K == KeptIndices(in, P)
    IN /\ Len(out) = Cardinality(K)
       /\ \A i \in K : out[Cardinality({j \in K : j <= i})] = F(in[i])

\* what C9 says of one bucket
BucketAsClaimed(bucket, flag, lanelets, objects, params) ==
    IF ~flag \/ lanelets = {}
    THEN bucket = <<>>
    ELSE IsOrderedProjection(bucket, objects,
             LAMBDA o : \E llt \in lanelets : CentroidStrictlyInside(o, llt.polygon2d),
             LAMBDA o : transform(o, params.safety_check_time_horizon,
                                  params.safety_check_time_resolution))

\* C9: each bucket of createTargetObjectsOnLane is empty when its flag is
\* off or it has no candidate lanelet, and otherwise holds the projections of
\* exactly the filtered objects whose centroid is within its lanelets, in
\* input order, each once whatever the multiplicity of a lanelet in the list
C9_LaneBuckets ==
    call.op = "createTargetObjectsOnLane" =>
        LET p == call.params
            cfg == p.object_lane_configuration
            current == LaneletSet(call.current_lanes)
            left == UNION {LaneletSet(getAllLeftSharedLinestringLanelets(
                               l, p.include_opposite_lane, p.invert_opposite_lane)) :
                           l \in current}
            right == UNION {LaneletSet(getAllRightSharedLinestringLanelets(
                                l, p.include_opposite_lane, p.invert_opposite_lane)) :
                            l \in current}
            objects == call.filtered_objects.objects
        IN /\ BucketAsClaimed(ret.on_current_lane, cfg.check_current_lane, current,
                              objects, p)
           /\ BucketAsClaimed(ret.on_left_lane, cfg.check_left_lane, left, objects, p)
           /\ BucketAsClaimed(ret.on_right_lane, cfg.check_right_lane, right, objects, p)

\* the left list names a lanelet twice, the left bucket holds two objects
\* once each, the first of them is in the current bucket too, and the right
\* bucket, with candidate lanelets, is empty
C9_Witness ==
    /\ call.op = "createTargetObjectsOnLane"
    /\ LET left == all_left_lanelets(call.current_lanes, call.params.include_opposite_lane,
                                     call.params.invert_opposite_lane, 1)
       IN \E j \in 1..Len(left), k \in 1..Len(left) : j # k /\ left[j] = left[k]
    /\ Len(ret.on_left_lane) = 2
    /\ ret.on_left_lane[1] # ret.on_left_lane[2]
    /\ Len(ret.on_current_lane) = 1
    /\ ret.on_current_lane[1] = ret.on_left_lane[1]
    /\ call.params.object_lane_configuration.check_right_lane
    /\ ret.on_right_lane = <<>>

----------------------------------------------------------------------------
(* Properties of the ego projection *)

\* C10: for a non-empty centerline createPredictedPath returns one sample for
\* every k >= 0 with k * resolution < horizon + 1e-3 and no other; sample k
\* has time k * resolution, velocity max(v + a t, min_slow_speed) and the pose
\* of the centerline at arc length s0 + v t + a t t / 2; an empty centerline
\* gives no sample
C10_EgoSamples ==
    call.op = "createPredictedPath" =>
        LET p == call.params
            v == call.current_velocity
            s0 == call.vehicle_pose.x - call.path_points[1].x
        IN IF call.path_points = <<>>
           THEN ret = <<>>
           ELSE /\ \A k \in 0..(Len(ret) - 1) :
                       k * p.time_resolution < p.time_horizon + Epsilon
                /\ Len(ret) * p.time_resolution >= p.time_horizon + Epsilon
                /\ \A k \in 0..(Len(ret) - 1) :
                       LET t == k * p.time_resolution
                           sample == ret[k + 1]
                       IN /\ sample.time = t
                          /\ sample.velocity >= p.min_slow_speed
                          /\ sample.velocity >= v + p.acceleration * t
                          /\ sample.velocity \in {p.min_slow_speed, v + p.acceleration * t}
                          /\ sample.pose = calcInterpolatedPose(
                                 call.path_points,
                                 s0 + v * t + (p.acceleration * t * t) \div 2)

\* acceleration 0, speed 5 m/s, resolution 1 s, horizon 3 s on the 40 m
\* centerline from its start: samples at t = 0, 1, 2, 3 s, all at 5 m/s, at
\* 0, 5, 10 and 15 m
C10_Witness ==
    /\ call.op = "createPredictedPath"
    /\ call.params.acceleration = 0
    /\ call.current_velocity = 5000
    /\ call.params.time_resolution = 1000
    /\ call.params.time_horizon = 3000
    /\ Len(ret) = 4
    /\ \A k \in 1..4 : /\ ret[k].time = (k - 1) * 1000
                       /\ ret[k].velocity = 5000
                       /\ ret[k].pose.x = (k - 1) * 5000000

\* deceleration -10 m/s^2 from 5 m/s with a floor of 1 m/s: the velocity at
\* 1 s is the floor
C10_WitnessFloor ==
    /\ call.op = "createPredictedPath"
    /\ call.params.acceleration = -10
    /\ call.params.min_slow_speed = 1000
    /\ call.current_velocity = 5000
    /\ Len(ret) >= 3
    /\ ret[1].velocity = 5000
    /\ ret[3].velocity = 1000

----------------------------------------------------------------------------
(* Properties of the other-agent projection *)

\* the sample times k * resolution < horizon + 1e-3 of a call, as indices k
SampleIndices(horizon, resolution) ==
    {k \in 0..(horizon \div resolution + 1) : k * resolution < horizon + Epsilon}

\* the pose of a predicted path at time t is defined: the path has a pose and
\* t lies within its span
PoseDefinedAt(path, t) ==
    /\ Len(path.path) >= 1
    /\ 0 <= t
    /\ t <= (Len(path.path) - 1) * path.time_step

\* C11: the ExtendedPredictedObject has one output path per input path, in
\* order and with the same confidence; the samples of a path are, in time
\* order, exactly the sample times at which the pose of the path is defined
\* (no extrapolation), so a path of one pose yields the single sample t = 0
C11_NoExtrapolationNoDrop ==
    call.op = "transform" =>
        LET in == call.object.predicted_paths
            out == ret.predicted_paths
            h == call.safety_check_time_horizon
            r == call.safety_check_time_resolution
        IN /\ Len(out) = Len(in)
           /\ \A i \in 1..Len(in) :
                  LET K == {k \in SampleIndices(h, r) : PoseDefinedAt(in[i], k * r)}
                      samples == out[i].path
                  IN /\ out[i].confidence = in[i].confidence
                     /\ Len(samples) = Cardinality(K)
                     /\ \A k \in K :
                            samples[Cardinality({j \in K : j <= k})].time = k * r
                     /\ Len(in[i].path) = 1 =>
                            (Len(samples) = 1 /\ samples[1].time = 0)

\* an object with three paths, projected over 3 s: the first path spans the
\* horizon, the last has one pose and yields the single sample t = 0
C11_Witness ==
    /\ call.op = "transform"
    /\ call.safety_check_time_horizon = 3000
    /\ call.safety_check_time_resolution = 1000
    /\ Len(ret.predicted_paths) = 3
    /\ Len(call.object.predicted_paths[3].path) = 1
    /\ Len(ret.predicted_paths[1].path) = 4
    /\ Len(ret.predicted_paths[2].path) = 2
    /\ Len(ret.predicted_paths[3].path) = 1
    /\ ret.predicted_paths[3].path[1].time = 0

\* C12 as stated: the number of samples of each path is ceil(horizon /
\* resolution)
C12_SampleCountIsCeil ==
    call.op = "transform" =>
        \A i \in 1..Len(ret.predicted_paths) :
            Len(ret.predicted_paths[i].path) =
                (call.safety_check_time_horizon + call.safety_check_time_resolution - 1)
                    \div call.safety_check_time_resolution

\* C12 amended: the number of samples of each path is at most the number of
\* sample times k * resolution < horizon + 1e-3 (k = 0, 1, ...), and equals it
\* iff the pose of the path is defined at each of them
C12_SampleCountBound ==
    call.op = "transform" =>
        LET h == call.safety_check_time_horizon
            r == call.safety_check_time_resolution
            N == Cardinality(SampleIndices(h, r))
        IN \A i \in 1..Len(ret.predicted_paths) :
               /\ Len(ret.predicted_paths[i].path) <= N
               /\ Len(ret.predicted_paths[i].path) = N <=>
                      \A k \in SampleIndices(h, r) :
                          PoseDefinedAt(call.object.predicted_paths[i], k * r)

\* horizon 3 s, resolution 1 s and a path that spans 3 s: four samples,
\* where ceil(3 / 1) is three
C12_Witness ==
    /\ call.op = "transform"
    /\ call.safety_check_time_horizon = 3000
    /\ call.safety_check_time_resolution = 1000
    /\ Len(ret.predicted_paths) >= 1
    /\ Len(ret.predicted_paths[1].path) = 4

\* C13 as stated: every sample carries the initial planar speed
\* hypot(vx, vy) of the object
C13_VelocityIsPlanarSpeed ==
    call.op = "transform" =>
        \A i \in 1..Len(ret.predicted_paths) :
            \A k \in 1..Len(ret.predicted_paths[i].path) :
                ret.predicted_paths[i].path[k].velocity =
                    Hypot(call.object.vx, call.object.vy)

\* C14: getPredictedPathFromObj returns every path in order when
\* is_use_all_predicted_path is set; otherwise the single path of highest
\* confidence, the first-listed among equals, and nothing for an object
\* without paths
C14_PathSelection ==
    call.op = "getPredictedPathFromObj" =>
        LET paths == call.obj.predicted_paths
        IN IF call.is_use_all_predicted_path
           THEN ret = paths
           ELSE IF paths = <<>>
                THEN ret = <<>>
                ELSE /\ Len(ret) = 1
                     /\ \E i \in 1..Len(paths) :
                            /\ ret[1] = paths[i]
                            /\ \A j \in 1..Len(paths) :
                                   paths[j].confidence <= paths[i].confidence
                            /\ \A j \in 1..(i - 1) :
                                   paths[j].confidence < paths[i].confidence

\* the second and third paths share the highest confidence and differ; the
\* second is returned
C14_Witness ==
    /\ call.op = "getPredictedPathFromObj"
    /\ ~call.is_use_all_predicted_path
    /\ Len(call.obj.predicted_paths) = 3
    /\ call.obj.predicted_paths[2].confidence = call.obj.predicted_paths[3].confidence
    /\ call.obj.predicted_paths[1].confidence < call.obj.predicted_paths[2].confidence
    /\ call.obj.predicted_paths[2] # call.obj.predicted_paths[3]
    /\ ret = <<call.obj.predicted_paths[2]>>

----------------------------------------------------------------------------
(* Further properties of the filtering operations and of the ego projection *)

\* C15: filterObjectsByClass is idempotent: a second application with the
\* same enable set to the batch the first left behind leaves the object list
\* and its order unchanged
C15_ClassIdempotent ==
    [][(/\ call.op = "filterObjectsByClass"
        /\ call'.op = "filterObjectsByClass"
        /\ call'.target_object_types = call.target_object_types)
           => batch'.objects = batch.objects]_vars

\* a batch that a class filter reduced from two objects to one is filtered by
\* class again, and the one object stays
C15_Witness ==
    /\ call.op = "filterObjectsByClass"
    /\ call.objects.header = DefaultHeader
    /\ Len(call.objects.objects) = 1
    /\ batch.objects = call.objects.objects
    /\ ~ call.target_object_types.check_pedestrian

\* C18 as stated: filterObjects and each of its stages leave the header of
\* the batch unchanged, for every non-empty input batch
C18_HeaderUnchanged ==
    /\ (call.op = "filterObjects" /\ call.objects.objects # <<>>) =>
           /\ ret.objects.header = call.objects.header
           /\ \A i \in 1..Len(ret.stages) : ret.stages[i].header = call.objects.header
    /\ call.op \in {"filterObjectsByVelocity", "filterObjectsByVelocity_bool"} =>
           ret.objects.header = call.objects.header
    /\ call.op \in {"filterObjectsByClass", "filterObjectsByPosition"} =>
           batch.header = call.objects.header

\* C19 as stated: for a current speed >= 0 and a floor speed >= 0 the
\* travelled length that places the pose is non-negative and non-decreasing
\* over the samples, so the pose never moves back along the centerline
C19_NeverBackwards ==
    (/\ call.op = "createPredictedPath"
     /\ call.current_velocity >= 0
     /\ call.params.min_slow_speed >= 0) =>
        \A k \in 1..Len(ret) :
            LET length(j) == travelled_length(call.current_velocity,
                                              call.params.acceleration, ret[j].time)
            IN /\ length(k) >= 0
               /\ ret[k].pose.x >= ret[1].pose.x
               /\ k > 1 => /\ length(k) >= length(k - 1)
                           /\ ret[k].pose.x >= ret[k - 1].pose.x

----------------------------------------------------------------------------
(* Properties of the VirtualWallMarkerCreator *)

\* the (namespace, id) pairs of the markers of a sequence
Keys(markers) == {<<markers[i].ns, markers[i].id>> : i \in 1..Len(markers)}

\* the (namespace, id) pairs of a set of DELETE markers
DeleteKeys(deletes) == {<<d.ns, d.id>> : d \in deletes}

\* C16: a marker emitted as non-DELETE by one create_markers call and not
\* emitted again by the next is emitted by the next as DELETE; after each
\* call no wall is left in the creator, and a viewer that applied every
\* returned array in order holds exactly the markers of the walls added
\* since the previous call: two per wall, the ones of the returned array
C16_NoStaleMarker ==
    /\ [](call.op = "create_markers" =>
             /\ virtual_walls = <<>>
             /\ viewer = {[ns |-> ret.markers[i].ns, id |-> ret.markers[i].id,
                           text |-> ret.markers[i].text] : i \in 1..Len(ret.markers)}
             /\ Cardinality(viewer) = 2 * Len(call.virtual_walls)
             /\ \A w \in WallKinds :
                    Cardinality({v \in viewer : v.text = w.text}) =
                        2 * Cardinality({i \in 1..Len(call.virtual_walls) :
                                            call.virtual_walls[i] = w}))
    /\ [][call'.op = "create_markers" =>
             \A key \in Keys(published.markers) :
                 \/ key \in Keys(published'.markers)
                 \/ key \in DeleteKeys(published'.deletes)]_vars

\* a call without walls after a call with walls: the namespaces dropped to
\* zero, their markers are deleted, and the viewer holds nothing
C16_Witness ==
    /\ call.op = "create_markers"
    /\ call.virtual_walls = <<>>
    /\ Cardinality(ret.deletes) = 2 * MaxWalls
    /\ \E ns \in DOMAIN marker_count_per_namespace :
           /\ marker_count_per_namespace[ns].current = 0
           /\ marker_count_per_namespace[ns].previous = MaxWalls
    /\ viewer = {}

\* C17: in every array returned by create_markers the non-DELETE markers of
\* each namespace carry the ids 0 .. n-1 once each, n being the number of
\* markers the walls of this call have in that namespace, and no (namespace,
\* id) is both a non-DELETE and a DELETE marker of the array
C17_IdsDense ==
    call.op = "create_markers" =>
        LET markers == ret.markers
            created == [i \in 1..Len(call.virtual_walls) |-> create_fn(call.virtual_walls[i])]
            n(ns) == Cardinality({<<i, j>> \in (1..Len(created)) \X (1..2) :
                                     j <= Len(created[i]) /\ created[i][j].ns = ns})
        IN /\ \A i \in 1..Len(markers) :
                  /\ markers[i].action # "DELETE"
                  /\ markers[i].id \in 0..(n(markers[i].ns) - 1)
                  /\ \A j \in 1..Len(markers) :
                         (markers[j].ns = markers[i].ns /\ markers[j].id = markers[i].id)
                             => j = i
           /\ \A w \in WallKinds : \A m \in {create_fn(w)[j] : j \in 1..Len(create_fn(w))} :
                  Cardinality({i \in 1..Len(markers) : markers[i].ns = m.ns}) = n(m.ns)
           /\ \A d \in ret.deletes : d.action = "DELETE"
           /\ Keys(markers) \cap DeleteKeys(ret.deletes) = {}

\* two walls that share their namespaces after a call with walls of another
\* namespace: ids 0 and 1 in one namespace, and DELETE markers in the array
C17_Witness ==
    /\ call.op = "create_markers"
    /\ Len(call.virtual_walls) = 2
    /\ call.virtual_walls[1] = call.virtual_walls[2]
    /\ \E i, j \in 1..Len(ret.markers) :
           /\ ret.markers[i].ns = ret.markers[j].ns
           /\ ret.markers[i].id = 0
           /\ ret.markers[j].id = 1
    /\ ret.deletes # {}

====
